---- MODULE Spec2Model ----
(***************************************************************************)
(* Playback controller and frequency visualizer of the music generation    *)
(* front-end: the MusicPlayer component (MusicPlayer.jsx), hosted by the    *)
(* generate page (GeneratePage.jsx).                                        *)
(*                                                                          *)
(* Numbers are fixed point: volumes in tenths (the slider's step), times    *)
(* in hundredths of a second, bar heights and colour channels in halves.    *)
(* A JavaScript value that may be a string or a number is a record          *)
(* [t |-> "string" | "number", v |-> value]; NaN is the value NaN.          *)
(***************************************************************************)
EXTENDS Integers, Sequences, FiniteSets

\* ------------------------------------------------------------------ bounds
\* blob URLs the generate flow may create in one run (URL.createObjectURL)
MaxTracks == 1
\* longest track, in whole seconds
MaxDuration == 1
\* seek positions tried besides 0, 50 and 100: 10, 20, ...
MaxPercentStep == 0
\* spectra the analyser may deliver besides silence and the first one
MaxSeed == 0
\* moods of the list offered by the form
MaxMoods == 1
\* volume slider positions tried besides 0 and 1: 0.1, 0.2, ...
MaxVolumeStep == 0
\* window widths tried, in steps of WidthStep pixels
MaxWidth == 2

\* --------------------------------------------------------------- constants
\* localStorage.getItem returns null / the element has no src
NoUrl == 0
\* the not-a-number value of JavaScript arithmetic
NaN == -1
\* analyserNode.fftSize
fftSize == 256
\* largest byte of a Uint8Array
ByteMax == 255
\* the volume slider: min 0, max 1, step 0.1, in tenths
VolumeMax == 10
\* the seek slider: min 0, max 100
PercentMax == 100
\* hundredths of a second per second
TimeScale == 100
\* halves per unit of bar height and colour channel
HalfScale == 2
\* the constant added to barHeight for the red channel
RedBase == 100
\* the fixed green and blue channels of a bar
Green == 50
Blue == 200
\* units per pixel of a bar's position and width: 2 * frequencyBinCount
PixelScale == 256
\* window.innerWidth of a narrow window, in pixels
WidthStep == 375

MoodList == <<"Cheerful", "Sorrow", "Up Lifting", "Dark">>
Moods == {MoodList[i] : i \in 1..MaxMoods}
ErrorMessage == "An error occurred while generating the song."

Volumes == {0, VolumeMax} \cup {v \in 1..MaxVolumeStep : v <= VolumeMax}
Percents == {0, 50, PercentMax} \cup {10 * i : i \in 1..MaxPercentStep}
Durations == {d * TimeScale : d \in 0..MaxDuration}
InnerWidths == {WidthStep * w : w \in 1..MaxWidth}

\* ------------------------------------------------------- JavaScript values
Num(n) == [t |-> "number", v |-> n]
Str(n) == [t |-> "string", v |-> n]
\* ToNumber: a numeric string used in arithmetic or assigned to a double
ToNumber(x) == x.v

VARIABLES
  \* the platform and the host page
  apiAvailable,    \* window.AudioContext || window.webkitAudioContext exists
  alwaysMounted,   \* the host renders <MusicPlayer/> unconditionally
  storage,         \* localStorage "audioSrc"
  liveUrls,        \* blob URLs of the current document
  nextUrl,         \* the next URL.createObjectURL result
  pageOpen,        \* the generate page is rendered
  selectedOption, isShow, isLoading, error, pageAudioSrc,
  request,         \* generation requests in flight
  \* the MusicPlayer instance
  mounted,
  \* its audio element (audioRef.current)
  elSrc, elVolume, elPaused, elEnded, elError, elCurrentTime, elDuration,
  sourceNodes,     \* createMediaElementSource calls on the element
  listeners,       \* timeupdate and ended listeners are registered
  pendingEnded,    \* an ended event is queued
  lastCall,        \* the last of play() / pause() called on the element
  \* its React state
  audioCtx, analyser, source, isPlaying, volume, progress,
  connections,     \* the edges of the audio graph
  \* the renderer
  loopActive,      \* a requestAnimationFrame callback is scheduled
  dataArray, bars, allocations,
  tick,            \* draw() calls of the loop, modulo 2
  \* history
  raised,          \* the last handler threw
  toggles,         \* handlePlayPause calls since the player was at rest,
                   \* modulo 2
  downloadHref,    \* the href of the link the last download clicked
  \* the bars of one tick, followed bar by bar in LayoutSpec
  layout

pageVars == <<storage, liveUrls, nextUrl, pageOpen, selectedOption, isShow,
              isLoading, error, request, pageAudioSrc>>
envVars == <<apiAvailable, alwaysMounted>>
elemVars == <<elSrc, elVolume, elPaused, elEnded, elError, elCurrentTime,
              elDuration, sourceNodes, listeners, pendingEnded, lastCall>>
reactVars == <<audioCtx, analyser, source, isPlaying, volume, progress,
               connections>>
renderVars == <<loopActive, dataArray, bars, allocations, tick>>
histVars == <<raised, toggles, downloadHref>>
playerVars == <<envVars, pageVars, mounted, elemVars, reactVars, renderVars,
                histVars>>
vars == <<playerVars, layout>>


\* ------------------------------------------------------- pure computations
\* a guard that never sees the tap
NeedsTapAlways(ctx) == TRUE

\* line 35: if (!audioCtx)
NeedsTap(ctx) == ~ctx

\* the flag is set and never cleared
NextIsPlayingStuck(playing) == TRUE

\* line 56: setIsPlaying(!isPlaying)
NextIsPlaying(playing) == ~playing

\* the ended listener toggles the flag
EndedIsPlayingToggled(playing) == ~playing

\* line 30: setIsPlaying(false)
EndedIsPlaying(playing) == FALSE

\* the percentage is not divided by 100
SeekTimeUnscaled(value, duration) ==
  IF duration = NaN THEN NaN ELSE value * duration

\* line 106: (e.target.value / 100) * audioRef.current.duration
SeekTime(value, duration) ==
  IF duration = NaN THEN NaN ELSE (value * duration) \div PercentMax

\* line 26: (currentTime / duration) * 100; 0 / 0 and x / NaN are NaN
ProgressOf(currentTime, duration) ==
  IF duration = NaN \/ duration = 0 THEN NaN
  ELSE (currentTime * PercentMax) \div duration

\* the element is left at full volume
ElementVolumeFull(newVolume) == VolumeMax

\* line 90: audioRef.current.volume = newVolume (a string, converted)
ElementVolume(newVolume) == ToNumber(newVolume)

\* one bin per sample of the transform
FrequencyBinCountWhole(size) == size

\* line 66: analyser.frequencyBinCount is half the fftSize
FrequencyBinCount(size) == size \div 2

\* line 67: new Uint8Array(bufferLength) is zero-filled
NewUint8Array(n) == [i \in 1..n |-> 0]

\* the magnitude is not halved
BarHeightWhole(m) == m * HalfScale

\* line 78: dataArray[i] / 2, in halves
BarHeight(m) == (m * HalfScale) \div 2

\* line 79: barHeight + 100, in halves
FillRed(barHeight) == barHeight + RedBase * HalfScale

\* line 63: canvas.width = window.innerWidth * 0.9; a canvas width is a
\* whole number of pixels
CanvasWidth(width) == (width * 9) \div 10

\* line 74: (canvas.width / bufferLength) * 2.5, in units of 1 / PixelScale
BarWidth(width, bufferLength) == (width * 5 * PixelScale) \div (2 * bufferLength)

\* the bars touch
NextXNoGap(x, barWidth) == x + barWidth

\* line 81: x += barWidth + 1
NextX(x, barWidth) == x + barWidth + PixelScale

\* lines 77-82: one rectangle per bin; the canvas keeps, by bin, the
\* height of the rectangle and the three channels of its fillStyle
DrawBars(frame) ==
  [height |-> [i \in 1..Len(frame) |-> BarHeight(frame[i])],
   red |-> [i \in 1..Len(frame) |-> FillRed(BarHeight(frame[i]))],
   green |-> [i \in 1..Len(frame) |-> Green * HalfScale],
   blue |-> [i \in 1..Len(frame) |-> Blue * HalfScale]]

\* line 71: what getByteFrequencyData may write: silence, or a spectrum.
\* The spectra are ramps falling from the largest byte; with silence the
\* first holds both ends of the byte range, the first two hold every byte.
SilentFrame(n) == [i \in 1..n |-> 0]
RampFrame(n, seed) ==
  [i \in 1..n |-> (ByteMax - ((seed + 2 * (i - 1)) % (ByteMax + 1)))]

\* the element is playing its resource: neither paused nor ended
Playing ==
  /\ elSrc \in liveUrls /\ ~elError
  /\ elDuration # NaN /\ ~elPaused /\ ~elEnded

\* the element is producing sound: it plays and has not reached the end
ActuallyPlaying == Playing /\ elCurrentTime < elDuration

\* the button is never disabled
ButtonNeverDisabled(loading) == FALSE

\* GeneratePage.jsx line 72: disabled={isLoading}
ButtonDisabled(loading) == loading

\* unmounting cancels the scheduled frame callback
UnmountedLoopCancelled(active) == FALSE

\* lines 13-32, 69-70: the effect returns no cleanup and nothing calls
\* cancelAnimationFrame, so a scheduled draw outlives the component
UnmountedLoop(active) == active

\* the frames of the analyser, by number: 0 is silence, k > 0 a spectrum;
\* each is as long as the analyser's frequencyBinCount
FrameIds == 0..(MaxSeed + 1)
AnalyserFrame ==
  [k \in FrameIds |->
     IF k = 0 THEN SilentFrame(FrequencyBinCount(fftSize))
     ELSE RampFrame(FrequencyBinCount(fftSize), k - 1)]

\* a spectrum needs sound; silence is all there is otherwise
AudibleFrames == IF ActuallyPlaying THEN FrameIds ELSE {0}

\* line 71: analyser.getByteFrequencyData(dataArray) overwrites the array
\* in place, as far as the array and the frame reach
GetByteFrequencyData(array, k) ==
  IF Len(array) = Len(AnalyserFrame[k]) THEN AnalyserFrame[k]
  ELSE [i \in 1..Len(array) |->
          IF i <= Len(AnalyserFrame[k]) THEN AnalyserFrame[k][i] ELSE array[i]]

\* lines 73-82 on the array just filled with frame k (DrawBars of each
\* analyser frame is computed once)
PaintedFrame == [k \in FrameIds |-> DrawBars(AnalyserFrame[k])]
Draw(array, k) ==
  IF array = AnalyserFrame[k] THEN PaintedFrame[k] ELSE DrawBars(array)

\* ------------------------------------------------------ the player instance
\* line 144: the canvas before anything is drawn
BlankCanvas == [height |-> <<>>, red |-> <<>>, green |-> <<>>, blue |-> <<>>]

\* lines 4-11 and the mount effect, lines 13-32, with audioUrl = url
FreshPlayer(url) ==
  [elSrc |-> url, elVolume |-> ElementVolume(Num(VolumeMax)),
   elPaused |-> TRUE, elEnded |-> FALSE, elError |-> FALSE,
   elCurrentTime |-> 0, elDuration |-> NaN, sourceNodes |-> 0,
   listeners |-> (url # NoUrl), pendingEnded |-> FALSE, lastCall |-> "none",
   audioCtx |-> FALSE, analyser |-> FALSE, source |-> FALSE,
   isPlaying |-> FALSE, volume |-> Num(VolumeMax), progress |-> Num(0),
   connections |-> {}]

InitPlayer(p) ==
  /\ elSrc = p.elSrc /\ elVolume = p.elVolume /\ elPaused = p.elPaused
  /\ elEnded = p.elEnded /\ elError = p.elError
  /\ elCurrentTime = p.elCurrentTime /\ elDuration = p.elDuration
  /\ sourceNodes = p.sourceNodes /\ listeners = p.listeners
  /\ pendingEnded = p.pendingEnded /\ lastCall = p.lastCall
  /\ audioCtx = p.audioCtx /\ analyser = p.analyser /\ source = p.source
  /\ isPlaying = p.isPlaying /\ volume = p.volume /\ progress = p.progress
  /\ connections = p.connections

SetPlayer(p) ==
  /\ elSrc' = p.elSrc /\ elVolume' = p.elVolume /\ elPaused' = p.elPaused
  /\ elEnded' = p.elEnded /\ elError' = p.elError
  /\ elCurrentTime' = p.elCurrentTime /\ elDuration' = p.elDuration
  /\ sourceNodes' = p.sourceNodes /\ listeners' = p.listeners
  /\ pendingEnded' = p.pendingEnded /\ lastCall' = p.lastCall
  /\ audioCtx' = p.audioCtx /\ analyser' = p.analyser /\ source' = p.source
  /\ isPlaying' = p.isPlaying /\ volume' = p.volume /\ progress' = p.progress
  /\ connections' = p.connections

\* the bars are not followed one by one
NoLayout ==
  [pc |-> "idle", innerWidth |-> 0, canvasWidth |-> 0, bufferLength |-> 0,
   barWidth |-> 0, i |-> 0, x |-> 0, rects |-> <<>>]

\* a page load with an empty key/value store
PageLoad ==
  /\ apiAvailable \in BOOLEAN
  /\ alwaysMounted \in BOOLEAN
  /\ storage = NoUrl /\ liveUrls = {} /\ nextUrl = 1
  /\ pageOpen = TRUE
  /\ selectedOption = "" /\ isShow = FALSE /\ isLoading = FALSE
  /\ error = "" /\ request = 0 /\ pageAudioSrc = NoUrl
  /\ mounted = alwaysMounted
  /\ InitPlayer(FreshPlayer(NoUrl))
  /\ loopActive = FALSE /\ dataArray = <<>> /\ bars = BlankCanvas
  /\ allocations = 0 /\ tick = 0
  /\ raised = FALSE /\ toggles = 0 /\ downloadHref = NoUrl

Init == PageLoad /\ layout = NoLayout


\* ------------------------------------------------------------ the host page
\* GeneratePage.jsx line 55: the mood select
SelectMood(mood) ==
  /\ pageOpen
  /\ selectedOption # mood
  /\ selectedOption' = mood
  /\ UNCHANGED <<layout, envVars, storage, liveUrls, nextUrl, pageOpen, isShow,
                 isLoading, error, request, pageAudioSrc, mounted, elemVars,
                 reactVars, renderVars, histVars>>

\* handleGenerate up to its await (lines 14-25 / 108-118); the button is
\* disabled while isLoading
GenerateStart ==
  /\ pageOpen
  /\ ~ButtonDisabled(isLoading)
  /\ \/ /\ selectedOption = ""
        /\ UNCHANGED vars
     \/ /\ selectedOption # ""
        /\ isLoading' = TRUE
        /\ error' = ""
        /\ storage' = IF alwaysMounted THEN storage ELSE NoUrl
        /\ pageAudioSrc' = NoUrl
        /\ request' = request + 1
        /\ UNCHANGED <<layout, envVars, liveUrls, nextUrl, pageOpen, selectedOption,
                       isShow, mounted, elemVars, reactVars, renderVars,
                       histVars>>

\* handleGenerate after the response (lines 31-35 / 123-127); a player that
\* is first shown mounts and runs its effect. The state updates of a page
\* that has been unmounted are dropped, the write to the store is not.
GenerateSuccess ==
  /\ request > 0
  /\ nextUrl <= MaxTracks
  /\ request' = request - 1
  /\ nextUrl' = nextUrl + 1
  /\ liveUrls' = liveUrls \cup {nextUrl}
  /\ storage' = nextUrl
  /\ IF pageOpen
       THEN /\ isLoading' = FALSE
            /\ isShow' = ~alwaysMounted
            /\ pageAudioSrc' = IF alwaysMounted THEN nextUrl ELSE NoUrl
            /\ mounted' = TRUE
            /\ IF mounted
                 THEN UNCHANGED <<elemVars, reactVars>>
                 ELSE SetPlayer(FreshPlayer(nextUrl))
       ELSE UNCHANGED <<isLoading, isShow, pageAudioSrc, mounted, elemVars,
                        reactVars>>
  /\ UNCHANGED <<layout, envVars, pageOpen, selectedOption, error, renderVars,
                 histVars>>

\* handleGenerate's catch (lines 36-41 / 128-133)
GenerateFailure ==
  /\ request > 0
  /\ request' = request - 1
  /\ isLoading' = (~pageOpen /\ isLoading)
  /\ error' = IF pageOpen THEN ErrorMessage ELSE error
  /\ UNCHANGED <<layout, envVars, storage, liveUrls, nextUrl, pageOpen, selectedOption,
                 isShow, pageAudioSrc, mounted, elemVars, reactVars,
                 renderVars, histVars>>

\* the page is torn down and loaded again: the store survives, the
\* document's blob URLs, requests, frame callbacks and React state do not
Reload ==
  /\ liveUrls' = {}
  /\ pageOpen' = TRUE
  /\ selectedOption' = ""
  /\ isShow' = (~alwaysMounted /\ storage # NoUrl)
  /\ isLoading' = FALSE
  /\ error' = ""
  /\ request' = 0
  /\ pageAudioSrc' = IF alwaysMounted THEN storage ELSE NoUrl
  /\ mounted' = (alwaysMounted \/ storage # NoUrl)
  /\ SetPlayer(FreshPlayer(IF alwaysMounted \/ storage # NoUrl
                             THEN storage ELSE NoUrl))
  /\ loopActive' = FALSE /\ dataArray' = <<>> /\ bars' = BlankCanvas
  /\ allocations' = 0 /\ tick' = 0
  /\ raised' = FALSE /\ toggles' = 0 /\ downloadHref' = NoUrl
  /\ UNCHANGED <<layout, envVars, storage, nextUrl>>

\* the generate page, and the player it shows, is unmounted without the
\* document being torn down: the components' state is gone (it reads as
\* its initial values), while the store, the audio element, the audio
\* graph, requests in flight and the scheduled frame callback remain
Unmount ==
  /\ pageOpen
  /\ pageOpen' = FALSE
  /\ mounted' = FALSE
  /\ selectedOption' = "" /\ isShow' = FALSE /\ isLoading' = FALSE
  /\ error' = "" /\ pageAudioSrc' = NoUrl
  /\ isPlaying' = FALSE /\ volume' = Num(VolumeMax) /\ progress' = Num(0)
  /\ loopActive' = UnmountedLoop(loopActive)
  /\ raised' = FALSE /\ toggles' = 0 /\ downloadHref' = NoUrl
  /\ UNCHANGED <<layout, envVars, storage, liveUrls, nextUrl, request, elemVars,
                 audioCtx, analyser, source, connections, dataArray, bars,
                 allocations, tick>>

\* -------------------------------------------------------- the audio element
\* the resource's metadata arrives: the duration becomes known
LoadedMetadata ==
  /\ mounted /\ elSrc \in liveUrls /\ elDuration = NaN
  /\ \E d \in Durations : elDuration' = d
  /\ UNCHANGED <<layout, envVars, pageVars, mounted, elSrc, elVolume, elPaused,
                 elEnded, elError, elCurrentTime, sourceNodes, listeners,
                 pendingEnded, lastCall, reactVars, renderVars, histVars>>

\* the src is a blob URL of an earlier document: the load fails
LoadError ==
  /\ mounted /\ elSrc # NoUrl /\ elSrc \notin liveUrls /\ ~elError
  /\ elError' = TRUE
  /\ UNCHANGED <<layout, envVars, pageVars, mounted, elSrc, elVolume, elPaused,
                 elEnded, elCurrentTime, elDuration, sourceNodes, listeners,
                 pendingEnded, lastCall, reactVars, renderVars, histVars>>

\* playback reaches the end of the track and queues the ended event
ReachEnd ==
  /\ Playing
  /\ elCurrentTime' = elDuration
  /\ elEnded' = TRUE
  /\ pendingEnded' = listeners
  /\ UNCHANGED <<layout, envVars, pageVars, mounted, elSrc, elVolume, elPaused,
                 elError, elDuration, sourceNodes, listeners, lastCall,
                 reactVars, renderVars, histVars>>


\* -------------------------------------------------------------- the player
\* lines 59-85: visualize(analyserNode) and its first draw(), run inside
\* handlePlayPause before anything has played
Visualize ==
  LET bufferLength == FrequencyBinCount(fftSize)
      buffer == NewUint8Array(bufferLength)
      frame == GetByteFrequencyData(buffer, 0)
  IN  /\ allocations' = allocations + 1
      /\ dataArray' = frame
      /\ bars' = Draw(frame, 0)
      /\ loopActive' = TRUE
      /\ tick' = (tick + 1) % 2

\* lines 36-48: the audio tap
ConstructTap ==
  /\ audioCtx' = TRUE /\ analyser' = TRUE /\ source' = TRUE
  /\ sourceNodes' = sourceNodes + 1
  /\ connections' = {<<"source", "analyser">>, <<"analyser", "destination">>}
  /\ Visualize

\* line 54: audioRef.current.play(); it is refused when the load has failed,
\* and it restarts a track that has ended
Play ==
  /\ lastCall' = "play"
  /\ elPaused' = IF elError THEN elPaused ELSE FALSE
  /\ elEnded' = IF elError THEN elEnded ELSE FALSE
  /\ elCurrentTime' = IF ~elError /\ elEnded THEN 0 ELSE elCurrentTime

\* line 52: audioRef.current.pause()
Pause ==
  /\ lastCall' = "pause"
  /\ elPaused' = TRUE
  /\ UNCHANGED <<elEnded, elCurrentTime>>

\* lines 34-57; without the platform's AudioContext line 36 throws
HandlePlayPause ==
  /\ mounted
  /\ toggles' = (toggles + 1) % 2
  /\ IF NeedsTap(audioCtx) /\ ~apiAvailable
       THEN /\ raised' = TRUE
            /\ UNCHANGED <<elemVars, reactVars, renderVars>>
       ELSE /\ raised' = FALSE
            /\ IF NeedsTap(audioCtx)
                 THEN ConstructTap
                 ELSE UNCHANGED <<audioCtx, analyser, source, sourceNodes,
                                  connections, renderVars>>
            /\ IF isPlaying THEN Pause ELSE Play
            /\ isPlaying' = NextIsPlaying(isPlaying)
            /\ UNCHANGED <<elSrc, elVolume, elError, elDuration, listeners,
                           pendingEnded, volume, progress>>
  /\ UNCHANGED <<layout, envVars, pageVars, mounted, downloadHref>>

\* lines 87-91; e.target.value is the slider's string
HandleVolumeChange(v) ==
  /\ mounted
  /\ LET newVolume == Str(v)
     IN  /\ volume' = newVolume
         /\ elVolume' = ElementVolume(newVolume)
  /\ raised' = FALSE
  /\ UNCHANGED <<layout, envVars, pageVars, mounted, elSrc, elPaused, elEnded,
                 elError, elCurrentTime, elDuration, sourceNodes, listeners,
                 pendingEnded, lastCall, audioCtx, analyser, source,
                 isPlaying, progress, connections, renderVars, toggles,
                 downloadHref>>

\* lines 105-109; assigning a non-finite currentTime throws a TypeError,
\* and a seek to the end of a playing track ends it
HandleProgressChange(p) ==
  /\ mounted
  /\ LET value == Str(p)
         newTime == SeekTime(ToNumber(value), elDuration)
     IN  IF newTime = NaN
           THEN /\ raised' = TRUE
                /\ UNCHANGED <<elCurrentTime, elEnded, pendingEnded, progress>>
           ELSE /\ raised' = FALSE
                /\ elCurrentTime' = newTime
                /\ elEnded' = (newTime = elDuration)
                /\ pendingEnded' =
                     IF newTime = elDuration /\ Playing
                       THEN listeners ELSE pendingEnded
                /\ progress' = value
  /\ UNCHANGED <<layout, envVars, pageVars, mounted, elSrc, elVolume, elPaused,
                 elError, elDuration, sourceNodes, listeners, lastCall,
                 audioCtx, analyser, source, isPlaying, volume, connections,
                 renderVars, toggles, downloadHref>>

\* line 94: localStorage.getItem("audioSrc") at the time of the click
DownloadUrl == storage

\* lines 93-103: the link is made only when the store holds a URL
HandleDownload ==
  /\ mounted
  /\ downloadHref' = DownloadUrl
  /\ raised' = FALSE
  /\ UNCHANGED <<layout, envVars, pageVars, mounted, elemVars, reactVars, renderVars,
                 toggles>>

\* lines 25-27: the timeupdate listener, after playback has moved on
OnTimeUpdate ==
  /\ mounted /\ listeners /\ elSrc \in liveUrls /\ elDuration # NaN
  /\ \E t \in {elCurrentTime} \cup
              (IF ActuallyPlaying
                 THEN {SeekTime(q, elDuration) : q \in Percents}
                 ELSE {}) :
       /\ t >= elCurrentTime
       /\ t = elDuration => t = elCurrentTime
       /\ elCurrentTime' = t
       /\ progress' = Num(ProgressOf(t, elDuration))
  /\ raised' = FALSE
  /\ UNCHANGED <<layout, envVars, pageVars, mounted, elSrc, elVolume, elPaused,
                 elEnded, elError, elDuration, sourceNodes, listeners,
                 pendingEnded, lastCall, audioCtx, analyser, source,
                 isPlaying, volume, connections, renderVars, toggles,
                 downloadHref>>

\* lines 29-31: the ended listener
OnEnded ==
  /\ mounted /\ pendingEnded
  /\ pendingEnded' = FALSE
  /\ isPlaying' = EndedIsPlaying(isPlaying)
  /\ raised' = FALSE
  /\ toggles' = 0
  /\ UNCHANGED <<layout, envVars, pageVars, mounted, elSrc, elVolume, elPaused,
                 elEnded, elError, elCurrentTime, elDuration, sourceNodes,
                 listeners, lastCall, audioCtx, analyser, source, volume,
                 progress, connections, renderVars, downloadHref>>

\* a frame callback that takes the graph apart
DrawTickDisconnecting ==
  /\ loopActive
  /\ connections' = {}
  /\ tick' = (tick + 1) % 2
  /\ UNCHANGED <<layout, envVars, pageVars, mounted, elemVars, audioCtx, analyser,
                 source, isPlaying, volume, progress, loopActive, dataArray,
                 bars, allocations, histVars>>

\* lines 69-83: one frame callback of the render loop
DrawTick ==
  /\ loopActive
  /\ \E k \in AudibleFrames :
       LET frame == GetByteFrequencyData(dataArray, k)
       IN  /\ dataArray' = frame
           /\ bars' = Draw(frame, k)
  /\ tick' = (tick + 1) % 2
  /\ UNCHANGED <<layout, envVars, pageVars, mounted, elemVars, reactVars, loopActive,
                 allocations, histVars>>

Next ==
  \/ \E mood \in Moods : SelectMood(mood)
  \/ GenerateStart
  \/ GenerateSuccess
  \/ GenerateFailure
  \/ Reload
  \/ Unmount
  \/ LoadedMetadata
  \/ LoadError
  \/ ReachEnd
  \/ HandlePlayPause
  \/ \E v \in Volumes : HandleVolumeChange(v)
  \/ \E p \in Percents : HandleProgressChange(p)
  \/ HandleDownload
  \/ OnTimeUpdate
  \/ OnEnded
  \/ DrawTick

Spec == Init /\ [][Next]_vars

\* ------------------------------------------------- the layout of the bars
\* visualize and draw, lines 59-83, taken one statement at a time for the
\* positions of the rectangles; the window is as wide as innerWidth
LayoutInit ==
  /\ PageLoad
  /\ layout \in {[NoLayout EXCEPT !.pc = "visualize", !.innerWidth = w] :
                   w \in InnerWidths}

\* lines 63-67
LayoutVisualize ==
  /\ layout.pc = "visualize"
  /\ layout' = [layout EXCEPT !.pc = "draw",
                              !.canvasWidth = CanvasWidth(layout.innerWidth),
                              !.bufferLength = FrequencyBinCount(fftSize)]
  /\ UNCHANGED playerVars

\* lines 70-75: a frame callback up to its loop
LayoutDraw ==
  /\ layout.pc = "draw"
  /\ layout' = [layout EXCEPT !.pc = "bars",
                              !.barWidth = BarWidth(layout.canvasWidth,
                                                    layout.bufferLength),
                              !.i = 0, !.x = 0, !.rects = <<>>]
  /\ UNCHANGED playerVars

\* lines 77-81: one pass of the loop, one rectangle
LayoutBar ==
  /\ layout.pc = "bars" /\ layout.i < layout.bufferLength
  /\ layout' = [layout EXCEPT !.rects = Append(layout.rects,
                                               [left |-> layout.x,
                                                width |-> layout.barWidth]),
                              !.x = NextX(layout.x, layout.barWidth),
                              !.i = layout.i + 1]
  /\ UNCHANGED playerVars

\* line 70: the loop is done, the next frame callback runs
LayoutNextFrame ==
  /\ layout.pc = "bars" /\ layout.i = layout.bufferLength
  /\ layout' = [layout EXCEPT !.pc = "draw"]
  /\ UNCHANGED playerVars

LayoutNext ==
  \/ LayoutVisualize
  \/ LayoutDraw
  \/ LayoutBar
  \/ LayoutNextFrame

LayoutSpec == LayoutInit /\ [][LayoutNext]_vars

\* the browser delivers every scheduled frame callback, and every request
\* is answered or fails
FairSpec ==
  /\ Spec
  /\ WF_vars(DrawTick)
  /\ WF_vars(GenerateSuccess \/ GenerateFailure)


\* ------------------------------------------------------------------- claims
Min(a, b) == IF a < b THEN a ELSE b

\* C1: for one player instance the audio tap is constructed at most once:
\* createMediaElementSource is called on the element at most once, and the
\* tap is recorded exactly when it has been constructed.
C1_TapConstructedAtMostOnce ==
  /\ sourceNodes <= 1
  /\ audioCtx <=> (sourceNodes = 1)
  /\ audioCtx = analyser /\ analyser = source

\* a second togglePlayPause has run on a player whose tap exists
C1_Witness == sourceNodes = 1 /\ lastCall = "pause" /\ ~isPlaying

C3_InertWithoutSource ==
  (mounted /\ elSrc = NoUrl) =>
    /\ ~isPlaying /\ progress = Num(0)
    /\ lastCall = "none" /\ elCurrentTime = 0
    /\ ~audioCtx /\ sourceNodes = 0

\* C4: a seek on a player with a source whose duration is unknown or zero
\* does not raise.
C4_SeekNeverRaises ==
  [][\A p \in Percents :
       (HandleProgressChange(p) /\ elSrc # NoUrl /\ elDuration \in {NaN, 0})
         => ~raised']_vars

\* C5: on a track of known duration D a seek to p percent sets the element's
\* currentTime to p/100 * D and the progress to p.
C5_SeekSetsTimeAndProgress ==
  [][\A p \in Percents :
       (HandleProgressChange(p) /\ elDuration # NaN) =>
         /\ elCurrentTime' * PercentMax = p * elDuration
         /\ ToNumber(progress') = p
         /\ ~raised']_vars

\* a seek to 50 percent of a track of positive duration
C5_Witness ==
  /\ mounted /\ elDuration # NaN /\ elDuration > 0
  /\ progress = Str(50) /\ elCurrentTime * 2 = elDuration

\* C6: setVolume(v) sets the element's volume and the state's volume to v,
\* and at all times the two agree and lie in [0, 1].
C6_VolumeAgrees ==
  /\ [](mounted =>
          /\ ToNumber(volume) = elVolume
          /\ elVolume >= 0 /\ elVolume <= VolumeMax)
  /\ [][\A v \in Volumes :
          HandleVolumeChange(v) => (elVolume' = v /\ ToNumber(volume') = v)]_vars

\* the volume slider was moved to 0
C6_Witness == mounted /\ volume = Str(0) /\ elVolume = 0

\* C7: the ended listener leaves isPlaying false, whatever it was, raises
\* nothing and changes neither volume, progress nor the audio tap.
C7_EndedIdempotent ==
  [][OnEnded =>
       /\ ~isPlaying' /\ ~raised'
       /\ UNCHANGED <<volume, progress, audioCtx, analyser, source,
                      sourceNodes, connections>>]_vars

\* the ended listener has run on a track that played to its end
C7_Witness ==
  /\ mounted /\ elEnded /\ ~pendingEnded /\ ~elPaused
  /\ lastCall = "play" /\ toggles = 0 /\ ~isPlaying

\* C8, as claimed: a bar's height is m/2 and its red channel is m + 100,
\* clamped to a byte.
C8_BarMappingClamped ==
  loopActive =>
    \A i \in 1..Len(dataArray) :
      /\ bars.height[i] * 2 = dataArray[i] * HalfScale
      /\ bars.red[i] = Min(dataArray[i] + RedBase, ByteMax) * HalfScale

\* C8, amended: for a magnitude byte m a bar's height is m/2 and its red
\* channel is m/2 + 100, the green and blue channels being 50 and 200.
C8_BarMapping ==
  loopActive =>
    /\ Len(bars.height) = Len(dataArray)
    /\ \A i \in 1..Len(dataArray) :
         /\ dataArray[i] \in 0..ByteMax
         /\ bars.height[i] * 2 = dataArray[i] * HalfScale
         /\ bars.red[i] * 2 = (dataArray[i] + 2 * RedBase) * HalfScale
         /\ bars.green[i] = Green * HalfScale
         /\ bars.blue[i] = Blue * HalfScale

\* a tick has drawn a frame that holds the largest byte
C8_Witness ==
  /\ loopActive
  /\ \E i \in 1..Len(dataArray) :
       dataArray[i] = ByteMax /\ bars.height[i] = ByteMax

\* C9: while the render loop runs the frequency frame is the one buffer
\* allocated at its start, of half the fftSize (128) bytes.
C9_FrameBufferFixed ==
  loopActive => (Len(dataArray) * 2 = fftSize /\ allocations = 1)

\* a later tick has refreshed the buffer with a spectrum
C9_Witness ==
  loopActive /\ allocations = 1 /\ \E i \in 1..Len(dataArray) : dataArray[i] # 0

\* C10: on the page that shows the player once a track exists, at every
\* point the URL a download would offer, and the one the last download did
\* offer, is the URL the player's audio element is bound to.
C10_DownloadIsPlayerSource ==
  (mounted /\ ~alwaysMounted) =>
    /\ DownloadUrl = elSrc
    /\ downloadHref = NoUrl \/ downloadHref = elSrc

\* C11: isPlaying matches the audio element: once the events of the element
\* have been handled, isPlaying is true exactly when the element is
\* neither paused nor ended, also when play() could not start playback.
C11_IsPlayingMatchesElement ==
  (mounted /\ ~pendingEnded) => (isPlaying <=> (~elPaused /\ ~elEnded))

\* C12: the progress is a number between 0 and 100 in every state, also
\* after a timeupdate on a track whose duration is zero.
C12_ProgressInRange ==
  mounted =>
    /\ ToNumber(progress) # NaN
    /\ ToNumber(progress) >= 0 /\ ToNumber(progress) <= PercentMax

\* C13: visualize is invoked exactly once per audio tap, in the call that
\* constructs the tap: the loops started are as many as the taps
\* constructed, at most one, and a loop runs exactly when one was started.
C13_VisualizeOncePerTap ==
  /\ allocations = sourceNodes
  /\ allocations <= 1
  /\ loopActive <=> (allocations = 1)

\* play and pause were toggled again on a player whose loop is running
C13_Witness ==
  /\ mounted /\ loopActive /\ allocations = 1
  /\ lastCall = "pause" /\ elPaused /\ toggles = 0

\* C14: once started the render loop is never cancelled, neither by a
\* controller action nor by unmounting the player, only by tearing the
\* page down; and with frame callbacks delivered it draws again and again.
C14_LoopNeverCancelled ==
  /\ [][(loopActive /\ ~loopActive') => Reload]_vars
  /\ []<>(loopActive => tick = 0)
  /\ []<>(loopActive => tick = 1)

\* the loop is still drawing after the player was unmounted
C14_Witness == ~pageOpen /\ ~mounted /\ loopActive /\ tick = 0

\* C15: without the platform's audio-context API a togglePlayPause is a
\* silent no-op: no tap is recorded, no loop is started, isPlaying keeps
\* its value and no exception reaches the caller.
C15_SilentWithoutApi ==
  [][(HandlePlayPause /\ ~apiAvailable) =>
       /\ ~audioCtx' /\ sourceNodes' = 0 /\ ~loopActive'
       /\ isPlaying' = isPlaying
       /\ ~raised']_vars

\* C16: when a generation request succeeds on the page, the player is
\* shown and its audio element is bound to the new URL, whether or not a
\* player was mounted before.
C16_PlayerTakesNewTrack ==
  [][(GenerateSuccess /\ pageOpen) =>
       /\ storage' = nextUrl
       /\ mounted' /\ elSrc' = nextUrl]_vars

\* C18: a render tick refreshes the frame and the canvas and leaves the
\* playback state, the audio element and the audio graph as they were.
C18_DrawTickReadOnly ==
  [][DrawTick =>
       /\ UNCHANGED <<isPlaying, volume, progress>>
       /\ UNCHANGED <<elPaused, elEnded, elCurrentTime, elVolume, elSrc>>
       /\ UNCHANGED <<audioCtx, analyser, source, sourceNodes, connections>>
       /\ Len(dataArray') = Len(dataArray)]_vars

\* a tick has drawn a spectrum while the track plays through the graph
C18_Witness ==
  /\ loopActive /\ isPlaying /\ ~elPaused
  /\ connections = {<<"source", "analyser">>, <<"analyser", "destination">>}
  /\ \E i \in 1..Len(dataArray) : dataArray[i] # 0 /\ bars.height[i] # 0

\* C17, as claimed: a request that fails resets isLoading, sets the error
\* message and leaves the stored audioSrc cleared.
C17_FailureLeavesStoreCleared ==
  [][(GenerateFailure /\ pageOpen) =>
       (~isLoading' /\ error' = ErrorMessage /\ storage' = NoUrl)]_vars

\* C17, amended: while the page is shown isLoading is true exactly while a
\* request is in flight; no request is issued without a mood; at most one
\* request is in flight; a request that succeeds resets isLoading and
\* stores the new URL; one that fails resets isLoading, sets the error
\* message and leaves the store as it was when the request was issued,
\* cleared on the page that clears it; and isLoading is eventually reset.
C17_LoadingWhileInFlight ==
  /\ [](request <= 1)
  /\ [](pageOpen => (isLoading <=> (request = 1)))
  /\ []((pageOpen /\ request > 0) => selectedOption # "")
  /\ [][(GenerateSuccess /\ pageOpen) =>
          (~isLoading' /\ request' = 0 /\ storage' = nextUrl)]_vars
  /\ [][(GenerateFailure /\ pageOpen) =>
          /\ ~isLoading' /\ request' = 0 /\ error' = ErrorMessage
          /\ storage' = storage
          /\ ~alwaysMounted => storage' = NoUrl]_vars
  /\ (pageOpen /\ isLoading) ~> ~isLoading

\* a request failed on the page that clears the store
C17_Witness ==
  /\ pageOpen /\ ~alwaysMounted /\ selectedOption # ""
  /\ error = ErrorMessage /\ ~isLoading /\ request = 0 /\ storage = NoUrl

\* C19, as claimed: the bars are packed left to right from 0 without
\* overlap, bar i at i * (barWidth + 1), and every bar ends inside the
\* canvas.
C19_BarsInsideCanvas ==
  \A k \in 1..Len(layout.rects) :
    /\ layout.rects[k].left = (k - 1) * (layout.barWidth + PixelScale)
    /\ k > 1 => layout.rects[k - 1].left + layout.rects[k - 1].width
                  <= layout.rects[k].left
    /\ layout.rects[k].left + layout.rects[k].width
         <= layout.canvasWidth * PixelScale

\* C19, amended: with barWidth = canvasWidth / binCount * 2.5 the bars are
\* packed left to right with a gap of 1, bar i at i * (barWidth + 1); the
\* row is wider than the canvas: only bins below binCount / 2.5 can end
\* inside it, and the last bar ends at 2.5 * canvasWidth + binCount - 1.
C19_BarsPacked ==
  layout.pc = "bars" =>
    /\ layout.barWidth * 2 * layout.bufferLength
         = layout.canvasWidth * 5 * PixelScale
    /\ \A k \in 1..Len(layout.rects) :
         /\ layout.rects[k].width = layout.barWidth
         /\ layout.rects[k].left = (k - 1) * (layout.barWidth + PixelScale)
         /\ k > 1 => layout.rects[k - 1].left + layout.rects[k - 1].width
                       + PixelScale = layout.rects[k].left
         /\ (layout.rects[k].left + layout.rects[k].width
               <= layout.canvasWidth * PixelScale) => 5 * k <= 2 * layout.bufferLength
    /\ Len(layout.rects) = layout.bufferLength =>
         LET last == layout.rects[layout.bufferLength]
         IN  /\ 2 * (last.left + last.width)
                  = (5 * layout.canvasWidth + 2 * (layout.bufferLength - 1))
                      * PixelScale
             /\ last.left + last.width > layout.canvasWidth * PixelScale

\* a tick has drawn the bar of every bin on a canvas of some width
C19_Witness ==
  /\ layout.pc = "bars" /\ layout.canvasWidth > 0
  /\ Len(layout.rects) = layout.bufferLength /\ layout.bufferLength > 0

====
